---- MODULE Spec2Model ----
(***************************************************************************)
(* Model of src/lib/phaser/system.js:                                      *)
(*   - Phaser.Device: the one-shot device-ready coordinator (whenReady,    *)
(*     _readyCheck, _initialize)                                           *)
(*   - Phaser.RequestAnimationFrame: the frame-paced update loop (start,   *)
(*     updateRAF, updateSetTimeout, stop)                                  *)
(* Every handler is one atomic action: JavaScript runs each handler to     *)
(* completion on a single thread.  Handlers are operators over a record of *)
(* the state they touch, so that a handler called from inside another      *)
(* handler (the driver calling stop()) is plain composition.               *)
(***************************************************************************)
EXTENDS Integers, Sequences, FiniteSets, TLC

VARIABLES dev, doc, obs, raf, win, game, robs

vars == <<dev, doc, obs, raf, win, game, robs>>
devVars == <<dev, doc, obs>>
rafVars == <<raf, win, game, robs>>

-----------------------------------------------------------------------------
(* Bounds *)

MaxSubs == 3        \* whenReady calls made by the application
MaxChecks == 3      \* _readyCheck invocations
MaxClock == 2       \* largest value of Date.now()
MaxFrames == 3      \* driver invocations
MaxStarts == 2      \* start() calls
MaxStops == 2       \* stop() calls
MaxTimeToCall == 2  \* largest game.time.timeToCall
QuerySubs == 2      \* whenReady calls made by an application that queries the Device
CallbackSubs == 3   \* whenReady calls made by an application whose callbacks misbehave
OnceSubs == 2       \* whenReady calls made on a host that delivers each event once
MaxHandles == 3     \* handles of the host's requests in a run without end

-----------------------------------------------------------------------------
(* Phaser.Device *)

Contexts == {"null", "ctxA"}
Events == {"deviceready", "DOMContentLoaded", "load"}
ReadyStates == {"loading", "interactive", "complete"}

\* The callback the file itself registers for Phaser.DOM (system.js:1595).
DOMCallback == 0

AudioFlags == {"ogg", "opus", "mp3", "wav", "m4a", "webm"}
VideoFlags == {"oggVideo", "h264Video", "mp4Video", "webmVideo", "vp9Video", "hlsVideo"}

\* What the host media elements report through canPlayType.
HostProfiles ==
    { {"ogg", "mp3", "oggVideo"},
      {"opus", "webm", "m4a", "wav", "h264Video", "mp4Video", "webmVideo", "vp9Video", "hlsVideo",
       "css3D"} }

\* Probes whose detection can fail on a host, and those among them whose
\* detection is not wrapped in try/catch.
Fallible == {"Audio", "Video", "CSS3D"}
Unguarded == {"CSS3D"}

\* Hosts with a failing detection: a guarded one, the unguarded one, both.
FaultProfiles == { {"Audio"}, {"CSS3D"}, {"Video", "CSS3D"} }

\* Variant: _checkFeatures is run before _checkBrowser.
ProbeOrderFeaturesEarly ==
    << "OS", "Audio", "Video", "Features", "Browser", "CSS3D", "Device",
       "FullScreenSupport", "Input" >>

\* The order of "Run the checks" at the end of _initialize.
ProbeOrder ==
    << "OS", "Audio", "Video", "Browser", "CSS3D", "Device", "Features",
       "FullScreenSupport", "Input" >>

\* new Phaser.Device() followed by the assignment of onInitialized; the
\* functions _readyCheck and _initialize are present until the ready
\* transition sets them to null.  queue models _readyCheck._queue, where
\* undefined and [] are the same to every reader (`_queue || []`).
DeviceNew ==
    [ deviceReadyAt |-> 0,
      initialized   |-> FALSE,
      caps          |-> {},
      readyCheck    |-> TRUE,
      initialize    |-> TRUE,
      onInitialized |-> TRUE,
      monitor       |-> FALSE,
      queue         |-> << >> ]

\* Nothing observed yet.
ObsNew ==
    [ calls      |-> << >>,   \* every callback invocation, in order
      queued     |-> << >>,   \* (callback, context) pairs pushed on the queue, in order
      whenCalls  |-> 0,       \* whenReady calls
      primers    |-> 0,       \* whenReady calls without nonPrimer
      armings    |-> 0,       \* executions of the arming branch
      checks     |-> 0,       \* _readyCheck invocations
      bodyChecks |-> 0,       \* _readyCheck invocations that found document.body
      initRuns   |-> 0,       \* _initialize executions
      probeLog   |-> << >>,   \* probes executed, in order
      dispatched |-> 0,       \* onInitialized.dispatch calls
      atDispatch |-> [ valid |-> FALSE ],   \* what an onInitialized handler observes
      atProbes   |-> {},      \* listeners still attached when the probe pass began
      unmet      |-> {},      \* (probe, probe it reads) pairs where the second had not run
      lastQuery  |-> [ valid |-> FALSE ],   \* the last canPlayAudio / canPlayVideo call
      fired      |-> {},      \* host events delivered so far (hosts that deliver each once)
      strategy   |-> "none",  \* what the arming call attached: "timer", "deviceready", "dom"
      armIndex   |-> 0,       \* position in `queued` of the arming call's pair
      errors     |-> 0,       \* exceptions that left a handler
      thrown     |-> FALSE,   \* an exception is propagating
      lastWhen   |-> [ valid |-> FALSE ] ]

\* window.setTimeout(readyCheck._monitor, delay)
SetMonitorTimer(w, delay) ==
    [w EXCEPT !.doc.timers[delay] = @ + 1]

\* Variant: callback.call(this, context), the arguments of call swapped.
InvokeSwapped(w, item, how) ==
    [w EXCEPT !.obs.calls =
        Append(@, [ cb |-> item[1], ctx |-> "Device", arg |-> item[2], via |-> how,
                    initialized |-> w.dev.initialized,
                    readyAt |-> w.dev.deviceReadyAt,
                    queueLen |-> Len(w.dev.queue),
                    probes |-> Len(w.obs.probeLog),
                    dispatched |-> w.obs.dispatched ])]

\* The callback that a callback of doc.reentrant hands to whenReady when it
\* runs, and the one an onInitialized handler hands to it.
Nested(callback) == callback + 100
HandlerCallback == 50

RECURSIVE WhenReadyBody(_, _, _, _)

\* callback.call(context, this); the record keeps what the callee can
\* observe of the Device while it runs.  The callee is application code: a
\* callback of doc.reentrant calls Phaser.Device.whenReady itself, a callback
\* of doc.throwers ends with an exception.
Invoke(w, item, how) ==
    LET w1 == [w EXCEPT !.obs.calls =
                  Append(@, [ cb |-> item[1], ctx |-> item[2], arg |-> "Device", via |-> how,
                              initialized |-> w.dev.initialized,
                              readyAt |-> w.dev.deviceReadyAt,
                              queueLen |-> Len(w.dev.queue),
                              probes |-> Len(w.obs.probeLog),
                              dispatched |-> w.obs.dispatched ])]
        w2 == IF item[1] \in w.doc.reentrant
              THEN WhenReadyBody(w1, Nested(item[1]), item[2], FALSE)
              ELSE w1
    IN  IF item[1] \in w.doc.throwers
        THEN [w2 EXCEPT !.obs.thrown = TRUE]
        ELSE w2

WhenReadyImmediate(w, callback, context) ==
    Invoke(w, <<callback, context>>, "immediate")

\* Variant: the pair is put at the front of the queue (unshift).
WhenReadyEnqueueFront(w, callback, context) ==
    [w EXCEPT !.dev.queue = <<(<<callback, context>>)>> \o @,
              !.obs.queued = Append(@, <<callback, context>>)]

WhenReadyEnqueue(w, callback, context) ==
    [w EXCEPT !.dev.queue = Append(@, <<callback, context>>),
              !.obs.queued = Append(@, <<callback, context>>)]

\* Variant: the Cordova test comes before the readyState test.
WhenReadyAttachCordovaFirst(w) ==
    IF w.doc.cordova /\ ~w.doc.cocoonJS
    THEN [w EXCEPT !.doc.listeners = @ \cup {"deviceready"}]
    ELSE IF w.doc.readyState \in {"complete", "interactive"}
    THEN SetMonitorTimer(w, 0)
    ELSE [w EXCEPT !.doc.listeners = @ \cup {"DOMContentLoaded", "load"}]

\* Variant: on a complete or interactive document the listeners are
\* attached as well as the timer.
WhenReadyAttachTimerAndListeners(w) ==
    IF w.doc.readyState \in {"complete", "interactive"}
    THEN [SetMonitorTimer(w, 0) EXCEPT !.doc.listeners = @ \cup {"DOMContentLoaded", "load"}]
    ELSE IF w.doc.cordova /\ ~w.doc.cocoonJS
    THEN [w EXCEPT !.doc.listeners = @ \cup {"deviceready"}]
    ELSE [w EXCEPT !.doc.listeners = @ \cup {"DOMContentLoaded", "load"}]

WhenReadyAttach(w) ==
    IF w.doc.readyState \in {"complete", "interactive"}
    THEN SetMonitorTimer(w, 0)
    ELSE IF w.doc.cordova /\ ~w.doc.cocoonJS
    THEN [w EXCEPT !.doc.listeners = @ \cup {"deviceready"}]
    ELSE [w EXCEPT !.doc.listeners = @ \cup {"DOMContentLoaded", "load"}]

\* Variant: on a document that is already complete or interactive the
\* callback is invoked at once instead of being queued.
WhenReadyArmEager(w, callback, context) ==
    LET w1 == [w EXCEPT !.dev.monitor = TRUE, !.obs.armings = @ + 1]
    IN  IF w.doc.readyState \in {"complete", "interactive"}
        THEN WhenReadyAttach(Invoke(w1, <<callback, context>>, "immediate"))
        ELSE WhenReadyAttach(WhenReadyEnqueue(w1, callback, context))

\* Variant: the arming call puts its pair at the front of the queue.
WhenReadyArmFront(w, callback, context) ==
    LET w1 == [w EXCEPT !.dev.monitor = TRUE, !.obs.armings = @ + 1]
        w2 == WhenReadyEnqueueFront(w1, callback, context)
    IN  WhenReadyAttach(w2)

WhenReadyArm(w, callback, context) ==
    LET w1 == [w EXCEPT !.dev.monitor = TRUE, !.obs.armings = @ + 1]
        w2 == WhenReadyEnqueue(w1, callback, context)
    IN  WhenReadyAttach(w2)

\* Variant: the queue test comes before the ready test.
WhenReadyBodyQueueFirst(w, callback, context, nonPrimer) ==
    IF w.dev.monitor \/ nonPrimer
    THEN WhenReadyEnqueue(w, callback, context)
    ELSE IF w.dev.deviceReadyAt # 0 \/ ~w.dev.readyCheck
    THEN WhenReadyImmediate(w, callback, context)
    ELSE WhenReadyArm(w, callback, context)

\* Variant: nonPrimer is ignored.
WhenReadyBodyAlwaysPrimes(w, callback, context, nonPrimer) ==
    IF w.dev.deviceReadyAt # 0 \/ ~w.dev.readyCheck
    THEN WhenReadyImmediate(w, callback, context)
    ELSE IF w.dev.monitor
    THEN WhenReadyEnqueue(w, callback, context)
    ELSE WhenReadyArm(w, callback, context)

\* Variant: _monitor is not tested, every non-deferred call arms.
WhenReadyBodyRearms(w, callback, context, nonPrimer) ==
    IF w.dev.deviceReadyAt # 0 \/ ~w.dev.readyCheck
    THEN WhenReadyImmediate(w, callback, context)
    ELSE IF nonPrimer
    THEN WhenReadyEnqueue(w, callback, context)
    ELSE WhenReadyArm(w, callback, context)

\* Variant: only the discarded coordinator makes the call immediate.
WhenReadyBodyDiscardedOnly(w, callback, context, nonPrimer) ==
    IF ~w.dev.readyCheck
    THEN WhenReadyImmediate(w, callback, context)
    ELSE IF w.dev.monitor \/ nonPrimer
    THEN WhenReadyEnqueue(w, callback, context)
    ELSE WhenReadyArm(w, callback, context)

WhenReadyBody(w, callback, context, nonPrimer) ==
    IF w.dev.deviceReadyAt # 0 \/ ~w.dev.readyCheck
    THEN WhenReadyImmediate(w, callback, context)
    ELSE IF w.dev.monitor \/ nonPrimer
    THEN WhenReadyEnqueue(w, callback, context)
    ELSE WhenReadyArm(w, callback, context)

\* Number of pending timers and attached listeners of the ready check.
Attached(w) ==
    w.doc.timers[0] + w.doc.timers[20] + Cardinality(w.doc.listeners)

\* Phaser.Device.whenReady, with what a caller can observe of the call.
WhenReady(w, callback, context, nonPrimer) ==
    LET r == WhenReadyBody(w, callback, context, nonPrimer)
    IN  [r EXCEPT
           !.obs.whenCalls = @ + 1,
           !.obs.primers = IF nonPrimer THEN @ ELSE @ + 1,
           !.obs.errors = IF r.obs.thrown THEN @ + 1 ELSE @,
           !.obs.thrown = FALSE,
           !.obs.lastWhen =
               [ valid        |-> TRUE,
                 cb           |-> callback,
                 ctx          |-> context,
                 nonPrimer    |-> nonPrimer,
                 readyBefore  |-> (w.dev.deviceReadyAt # 0 \/ ~w.dev.readyCheck),
                 armedBefore  |-> w.dev.monitor,
                 primersBefore |-> w.obs.primers,
                 invoked      |-> Len(r.obs.calls) - Len(w.obs.calls),
                 lastCall     |-> IF r.obs.calls = << >> THEN [cb |-> -1]
                                  ELSE r.obs.calls[Len(r.obs.calls)],
                 pushed       |-> Len(r.dev.queue) - Len(w.dev.queue),
                 queueBefore  |-> w.dev.queue,
                 queueAfter   |-> r.dev.queue,
                 attached     |-> Attached(r) - Attached(w),
                 monitorSet   |-> (r.dev.monitor /\ ~w.dev.monitor),
                 devRestSame  |-> (r.dev = [w.dev EXCEPT !.queue = r.dev.queue,
                                                         !.monitor = r.dev.monitor]),
                 docRestSame  |-> (r.doc = [w.doc EXCEPT !.timers = r.doc.timers,
                                                         !.listeners = r.doc.listeners]),
                 readyStateBefore |-> w.doc.readyState,
                 timersAdded  |-> [t \in {0, 20} |-> r.doc.timers[t] - w.doc.timers[t]],
                 listenersAdded |-> r.doc.listeners \ w.doc.listeners,
                 listenersRemoved |-> w.doc.listeners \ r.doc.listeners,
                 probesRun    |-> Len(r.obs.probeLog) - Len(w.obs.probeLog),
                 checksRun    |-> r.obs.checks - w.obs.checks ] ]

\* The probes whose capabilities a probe reads: _checkBrowser reads
\* device.iOS and device.windowsPhone, _checkFeatures reads device.cocoonJS,
\* device.firefox, device.ie, device.chrome, device.safari and device.iOS,
\* _checkInput reads device.cocoonJS, device.ie and device.firefox.
ProbeReads(probe) ==
    CASE probe = "Browser"  -> {"OS"}
      [] probe = "Features" -> {"OS", "Browser"}
      [] probe = "Input"    -> {"Browser"}
      [] OTHER              -> {}

\* The probes that have run.
ProbesDone(w) == {w.obs.probeLog[i] : i \in 1..Len(w.obs.probeLog)}

\* One probe of _initialize: the audio and video probes set the flags the
\* host's media elements report; a flag is only ever set to true.  The
\* detection of a probe in doc.fails fails on this host (canPlayType throws,
\* getComputedStyle returns null): _checkAudio and _checkVideo catch the
\* exception and leave their flags at the default, _checkCSS3D has no
\* handler and the exception leaves _initialize.
RunProbe(w, probe) ==
    LET found == IF probe \in w.doc.fails THEN {}
                 ELSE IF probe = "Audio" THEN w.doc.hostCaps \cap AudioFlags
                 ELSE IF probe = "Video" THEN w.doc.hostCaps \cap VideoFlags
                 ELSE IF probe = "CSS3D" THEN w.doc.hostCaps \cap {"css3D"}
                 ELSE {}
    IN  [w EXCEPT !.dev.caps = @ \cup found,
                  !.obs.probeLog = Append(@, probe),
                  !.obs.unmet = @ \cup {<<probe, q>> : q \in ProbeReads(probe) \ ProbesDone(w)},
                  !.obs.thrown = (probe \in w.doc.fails /\ probe \in Unguarded)]

\* The probes from the i-th on; Rest is applied to the state reached so far
\* and to i as values (as are Rest in Drain and Handlers in Dispatch).
RECURSIVE RunProbes(_, _)
RunProbes(w, i) ==
    LET Rest(v, j) == IF j > Len(ProbeOrder) \/ v.obs.thrown THEN v
                      ELSE RunProbes(RunProbe(v, ProbeOrder[j]), j + 1)
    IN  CHOOSE r \in {Rest(v, j) : v \in {w}, j \in {i}} : TRUE

\* Phaser.Device._initialize
Initialize(w) ==
    RunProbes([w EXCEPT !.obs.initRuns = @ + 1,
                        !.obs.atProbes = @ \cup w.doc.listeners], 1)

\* Variant: the queue is drained with pop() instead of shift().
RECURSIVE DrainLIFO(_)
DrainLIFO(w) ==
    IF w.dev.queue = << >> THEN w
    ELSE LET n == Len(w.dev.queue)
             item == w.dev.queue[n]
             w1 == [w EXCEPT !.dev.queue = SubSeq(@, 1, n - 1)]
         IN  DrainLIFO(Invoke(w1, item, "drain"))

\* Variant: an exception of a callback is swallowed and the loop goes on.
RECURSIVE DrainCatches(_)
DrainCatches(w) ==
    IF w.dev.queue = << >> THEN w
    ELSE LET item == Head(w.dev.queue)
             w1 == [w EXCEPT !.dev.queue = Tail(@)]
         IN  DrainCatches([Invoke(w1, item, "drain") EXCEPT !.obs.thrown = FALSE])

\* while ((item = readyCheck._queue.shift())) { callback.call(context, this); }
RECURSIVE Drain(_)
Drain(w) ==
    LET Rest(v) == IF v.dev.queue = << >> \/ v.obs.thrown THEN v
                   ELSE LET item == Head(v.dev.queue)
                            w1 == [v EXCEPT !.dev.queue = Tail(@)]
                        IN  Drain(Invoke(w1, item, "drain"))
    IN  CHOOSE r \in {Rest(v) : v \in {w}} : TRUE

\* this.onInitialized.dispatch(this): the handlers run here and observe the
\* Device as it is at this point; on doc.handlerCalls a handler calls
\* Phaser.Device.whenReady.
Dispatch(w) ==
    LET Handlers(v) ==
            LET w1 == [v EXCEPT !.obs.dispatched = @ + 1,
                                !.obs.atDispatch =
                                    [ valid       |-> TRUE,
                                      initialized |-> v.dev.initialized,
                                      readyAt     |-> v.dev.deviceReadyAt,
                                      queueLen    |-> Len(v.dev.queue),
                                      probes      |-> Len(v.obs.probeLog),
                                      calls       |-> Len(v.obs.calls) ]]
            IN  IF v.doc.handlerCalls
                THEN WhenReadyBody(w1, HandlerCallback, "null", FALSE)
                ELSE w1
    IN  CHOOSE r \in {Handlers(v) : v \in {w}} : TRUE

\* Variant: initialized is set after the queue has been drained.
ReadyTransitionLateInit(w, now) ==
    LET w1 == [w EXCEPT !.dev.deviceReadyAt = now,
                        !.doc.listeners = @ \ Events]
        w2 == Initialize(w1)
        w3 == Dispatch(w2)
        w4 == Drain(w3)
    IN  IF w2.obs.thrown THEN w2
        ELSE [w4 EXCEPT !.dev.initialized = TRUE,
                        !.dev.readyCheck = FALSE,
                        !.dev.initialize = FALSE,
                        !.dev.onInitialized = FALSE]

\* Variant: the queue is drained before the probes run and the signal is
\* dispatched.
ReadyTransitionDrainFirst(w, now) ==
    LET w1 == [w EXCEPT !.dev.deviceReadyAt = now,
                        !.doc.listeners = @ \ Events]
        w2 == Initialize(Drain(w1))
        w3 == Dispatch([w2 EXCEPT !.dev.initialized = TRUE])
    IN  IF w2.obs.thrown THEN w2
        ELSE [w3 EXCEPT !.dev.readyCheck = FALSE,
                        !.dev.initialize = FALSE,
                        !.dev.onInitialized = FALSE]

\* Variant: deviceReadyAt is assigned after the probe pass.
ReadyTransitionStampLast(w, now) ==
    LET w1 == [w EXCEPT !.doc.listeners = @ \ Events]
        w2 == Initialize(w1)
        w3 == Dispatch([w2 EXCEPT !.dev.deviceReadyAt = now,
                                  !.dev.initialized = TRUE])
        w4 == Drain(w3)
    IN  IF w2.obs.thrown THEN w2
        ELSE IF w4.obs.thrown THEN w4
        ELSE [w4 EXCEPT !.dev.readyCheck = FALSE,
                        !.dev.initialize = FALSE,
                        !.dev.onInitialized = FALSE]

\* Variant: the listeners are removed after the probe pass.
ReadyTransitionDetachLate(w, now) ==
    LET w1 == [w EXCEPT !.dev.deviceReadyAt = now]
        w2 == [Initialize(w1) EXCEPT !.doc.listeners = @ \ Events]
        w3 == Dispatch([w2 EXCEPT !.dev.initialized = TRUE])
        w4 == Drain(w3)
    IN  IF w2.obs.thrown THEN w2
        ELSE [w4 EXCEPT !.dev.readyCheck = FALSE,
                        !.dev.initialize = FALSE,
                        !.dev.onInitialized = FALSE]

\* The ready transition of _readyCheck (the `else if (!this.deviceReadyAt)`
\* block).  An exception thrown by a probe or by a callback leaves the block
\* at once.
ReadyTransition(w, now) ==
    LET w1 == [w EXCEPT !.dev.deviceReadyAt = now,
                        !.doc.listeners = @ \ Events]
        w2 == Initialize(w1)
        w3 == Dispatch([w2 EXCEPT !.dev.initialized = TRUE])
        w4 == Drain(w3)
    IN  IF w2.obs.thrown THEN w2
        ELSE IF w4.obs.thrown THEN w4
        ELSE [w4 EXCEPT !.dev.readyCheck = FALSE,
                        !.dev.initialize = FALSE,
                        !.dev.onInitialized = FALSE]

\* Variant: no poll is scheduled.
ReadyCheckRetryNone(w) ==
    IF w.dev.readyCheck
    THEN w
    ELSE [w EXCEPT !.obs.thrown = TRUE]

\* Variant: the poll is scheduled twice.
ReadyCheckRetryTwice(w) ==
    IF w.dev.readyCheck
    THEN SetMonitorTimer(SetMonitorTimer(w, 20), 20)
    ELSE [w EXCEPT !.obs.thrown = TRUE]

\* window.setTimeout(readyCheck._monitor, 20), where readyCheck is the value
\* of this._readyCheck read on entry: once the ready transition has set it
\* to null, reading readyCheck._monitor throws a TypeError.
ReadyCheckRetry(w) ==
    IF w.dev.readyCheck
    THEN SetMonitorTimer(w, 20)
    ELSE [w EXCEPT !.obs.thrown = TRUE]

\* Variant: the ready transition is not guarded by deviceReadyAt.
ReadyCheckBodyNoGuard(w, now) ==
    IF ~w.doc.body
    THEN ReadyCheckRetry(w)
    ELSE ReadyTransition(w, now)

\* Variant: document.body is not tested.
ReadyCheckBodyNoBodyTest(w, now) ==
    IF w.dev.deviceReadyAt = 0
    THEN ReadyTransition(w, now)
    ELSE w

\* Variant: a later check with the body present runs the probes again.
ReadyCheckBodyReprobe(w, now) ==
    IF ~w.doc.body
    THEN ReadyCheckRetry(w)
    ELSE IF w.dev.deviceReadyAt = 0
    THEN ReadyTransition(w, now)
    ELSE Initialize(w)

\* Variant: a later check with the body present stamps deviceReadyAt again.
ReadyCheckBodyRestamp(w, now) ==
    IF ~w.doc.body
    THEN ReadyCheckRetry(w)
    ELSE IF w.dev.deviceReadyAt = 0
    THEN ReadyTransition(w, now)
    ELSE [w EXCEPT !.dev.deviceReadyAt = now]

\* Phaser.Device._readyCheck, called through the bound _monitor.
ReadyCheckBody(w, now) ==
    IF ~w.doc.body
    THEN ReadyCheckRetry(w)
    ELSE IF w.dev.deviceReadyAt = 0
    THEN ReadyTransition(w, now)
    ELSE w

\* An exception that leaves _readyCheck is reported by the host.
ReadyCheck(w, now) ==
    LET r == ReadyCheckBody(w, now)
    IN  [r EXCEPT !.obs.checks = @ + 1,
                  !.obs.bodyChecks = IF w.doc.body THEN @ + 1 ELSE @,
                  !.obs.errors = IF r.obs.thrown THEN @ + 1 ELSE @,
                  !.obs.thrown = FALSE]

\* The media kinds handed to canPlayAudio and canPlayVideo: those the
\* functions know, each other's, and one neither knows.
MediaKinds == {"mp3", "ogg", "m4a", "opus", "wav", "webm", "mp4", "ogv", "mpeg", "flac"}

\* Variant: 'ogg' is answered from the ogg flag alone.
CanPlayAudioOggOnly(d, type) ==
    \/ type = "mp3" /\ "mp3" \in d.caps
    \/ type = "ogg" /\ "ogg" \in d.caps
    \/ type = "m4a" /\ "m4a" \in d.caps
    \/ type = "opus" /\ "opus" \in d.caps
    \/ type = "wav" /\ "wav" \in d.caps
    \/ type = "webm" /\ "webm" \in d.caps

\* Phaser.Device.canPlayAudio
CanPlayAudio(d, type) ==
    IF type = "mp3" /\ "mp3" \in d.caps THEN TRUE
    ELSE IF type = "ogg" /\ ("ogg" \in d.caps \/ "opus" \in d.caps) THEN TRUE
    ELSE IF type = "m4a" /\ "m4a" \in d.caps THEN TRUE
    ELSE IF type = "opus" /\ "opus" \in d.caps THEN TRUE
    ELSE IF type = "wav" /\ "wav" \in d.caps THEN TRUE
    ELSE IF type = "webm" /\ "webm" \in d.caps THEN TRUE
    ELSE FALSE

\* Phaser.Device.canPlayVideo
CanPlayVideo(d, type) ==
    IF type = "webm" /\ ("webmVideo" \in d.caps \/ "vp9Video" \in d.caps) THEN TRUE
    ELSE IF type = "mp4" /\ ("mp4Video" \in d.caps \/ "h264Video" \in d.caps) THEN TRUE
    ELSE IF (type = "ogg" \/ type = "ogv") /\ "oggVideo" \in d.caps THEN TRUE
    ELSE IF type = "mpeg" /\ "hlsVideo" \in d.caps THEN TRUE
    ELSE FALSE

\* A call of canPlayAudio or canPlayVideo by the application, with what it
\* returned; neither function assigns anything.
Query(w, fn, type) ==
    [w EXCEPT !.obs.lastQuery =
        [ valid  |-> TRUE,
          fn     |-> fn,
          type   |-> type,
          result |-> IF fn = "audio" THEN CanPlayAudio(w.dev, type)
                     ELSE CanPlayVideo(w.dev, type),
          probed |-> (w.obs.initRuns > 0) ]]

\* The state of the Device and of its host.
World == [dev |-> dev, doc |-> doc, obs |-> obs]

SetWorld(w) ==
    /\ dev' = w.dev
    /\ doc' = w.doc
    /\ obs' = w.obs

\* The host document when the script is evaluated: still loading, the body
\* not parsed yet (DocProgress and BodyParsed lead to the other cases).
\* Date.now() is positive; each handler reads it once, as its input `now`.
Now == 1..MaxClock

DocInit(d) ==
    /\ d.readyState = "loading"
    /\ d.body = FALSE
    /\ d.cordova \in BOOLEAN
    /\ d.cocoonJS \in BOOLEAN
    /\ d.hostCaps \in HostProfiles
    /\ d.fails = {}
    /\ d.reentrant = {}
    /\ d.throwers = {}
    /\ d.handlerCalls = FALSE
    /\ d.listeners = {}
    /\ d.timers = [t \in {0, 20} |-> 0]

Docs ==
    [ readyState : ReadyStates, body : BOOLEAN, cordova : BOOLEAN, cocoonJS : BOOLEAN,
      hostCaps : HostProfiles, fails : SUBSET Fallible, reentrant : {{}},
      throwers : {{}}, handlerCalls : {FALSE}, listeners : {{}},
      timers : {[t \in {0, 20} |-> 0]} ]

\* The state once the file has been evaluated: the Device singleton exists
\* and Phaser.DOM has registered its callback with nonPrimer = true.
DeviceInit ==
    \E d \in Docs :
        /\ DocInit(d)
        /\ LET w == WhenReady([dev |-> DeviceNew, doc |-> d, obs |-> ObsNew],
                              DOMCallback, "null", TRUE)
           IN  /\ dev = w.dev
               /\ doc = w.doc
               /\ obs = [w.obs EXCEPT !.whenCalls = 0, !.lastWhen = [valid |-> FALSE]]

\* The application calls Phaser.Device.whenReady(callback, context, nonPrimer).
CallWhenReady ==
    /\ obs.whenCalls < MaxSubs
    /\ \E context \in Contexts, nonPrimer \in BOOLEAN :
          SetWorld(WhenReady(World, obs.whenCalls + 1, context, nonPrimer))
    /\ UNCHANGED rafVars

\* The host delivers a readiness event; the ready check runs if it listens.
HostEvent ==
    /\ obs.checks < MaxChecks
    /\ \E e \in Events, now \in Now :
          IF e \in doc.listeners
          THEN SetWorld(ReadyCheck(World, now))
          ELSE UNCHANGED devVars
    /\ UNCHANGED rafVars

\* A pending timer of the ready check (0 ms tick or 20 ms poll) fires.
MonitorTimer ==
    /\ obs.checks < MaxChecks
    /\ \E t \in {0, 20}, now \in Now :
          /\ doc.timers[t] > 0
          /\ SetWorld(ReadyCheck([World EXCEPT !.doc.timers[t] = @ - 1], now))
    /\ UNCHANGED rafVars

\* document.body becomes available.
BodyParsed ==
    /\ ~doc.body
    /\ doc' = [doc EXCEPT !.body = TRUE]
    /\ UNCHANGED <<dev, obs>>
    /\ UNCHANGED rafVars

\* document.readyState advances.
DocProgress ==
    /\ doc.readyState # "complete"
    /\ doc' = [doc EXCEPT !.readyState =
                  IF @ = "loading" THEN "interactive" ELSE "complete"]
    /\ UNCHANGED <<dev, obs>>
    /\ UNCHANGED rafVars

\* document.body becomes unavailable again (the body element is removed
\* from the document).
BodyRemoved ==
    /\ doc.body
    /\ doc' = [doc EXCEPT !.body = FALSE]
    /\ UNCHANGED <<dev, obs>>
    /\ UNCHANGED rafVars

\* The application calls Phaser.Device.canPlayAudio(type).
CallCanPlayAudio ==
    /\ \E type \in MediaKinds : SetWorld(Query(World, "audio", type))
    /\ UNCHANGED rafVars

\* The application calls Phaser.Device.canPlayVideo(type).
CallCanPlayVideo ==
    /\ \E type \in MediaKinds : SetWorld(Query(World, "video", type))
    /\ UNCHANGED rafVars

\* The application calls whenReady, at most QuerySubs times.
Subscribe ==
    /\ obs.whenCalls < QuerySubs
    /\ SetWorld(WhenReady(World, obs.whenCalls + 1, "ctxA", FALSE))
    /\ UNCHANGED rafVars

DeviceNext ==
    \/ CallWhenReady
    \/ HostEvent
    \/ MonitorTimer
    \/ BodyParsed
    \/ DocProgress

-----------------------------------------------------------------------------
(* Phaser.RequestAnimationFrame *)

Prims == {"raf", "timeout"}
HostRAF == {"native", "prefixed", "none"}
DriverKinds == {"none", "stop", "restart", "retime"}

\* Math.floor(rafTime); rafTime is given in half milliseconds.
Floor(rafTime) == rafTime \div 2

\* The scheduler, the window and the game as the constructor leaves them.
\* The vendor loop installs a prefixed requestAnimationFrame and
\* cancelAnimationFrame when the unprefixed one is missing; with no vendor
\* implementation both end up undefined.
Constructor(hostRAF, forceSetTimeOut, timeToCall) ==
    [ raf  |-> [ isRunning       |-> FALSE,
                 forceSetTimeOut |-> forceSetTimeOut,
                 isSetTimeOut    |-> FALSE,
                 onLoop          |-> "null",
                 timeOutID       |-> 0 ],
      win  |-> [ requestAnimationFrame |-> (hostRAF # "none"),
                 cancelAnimationFrame  |-> (hostRAF # "none"),
                 pending |-> {},
                 nextId  |-> [p \in Prims |-> 1] ],
      game |-> [ timeToCall |-> timeToCall, updates |-> 0, lastTime |-> 0 ],
      robs |-> [ starts    |-> 0,
                 stops     |-> 0,
                 requests  |-> 0,
                 switched  |-> FALSE,  \* a start() chose the preferred path after
                                       \* an earlier one chose the fallback
                 lastIssued |-> [prim |-> "none", id |-> 0, delay |-> 0],
                 lastStart |-> [valid |-> FALSE],
                 lastStop  |-> [valid |-> FALSE],
                 driverStopped |-> FALSE,
                 updatesAfterDriverStop |-> 0,
                 active    |-> 0,     \* driver invocations in progress
                 peak      |-> 0,     \* largest value of active so far
                 driverEntry |-> 0,   \* requests issued when the driver was entered
                 driverExit  |-> 0,   \* requests issued when the driver returned
                 lastFrame |-> [valid |-> FALSE],
                 err       |-> FALSE ] ]

\* this._timeOutID = window.setTimeout(this._onLoop, delay)   or
\* this._timeOutID = window.requestAnimationFrame(this._onLoop)
Request(s, prim, delay) ==
    LET id == s.win.nextId[prim]
    IN  [s EXCEPT
           !.win.pending = @ \cup {[prim |-> prim, id |-> id, delay |-> delay,
                                     loop |-> s.raf.onLoop]},
           !.win.nextId[prim] = id + 1,
           !.raf.timeOutID = id,
           !.robs.requests = @ + 1,
           !.robs.lastIssued = [prim |-> prim, id |-> id, delay |-> delay]]

\* clearTimeout(id) / window.cancelAnimationFrame(id)
Cancel(s, prim, id) ==
    [s EXCEPT !.win.pending = {p \in @ : ~(p.prim = prim /\ p.id = id)}]

StartTimeout(s) ==
    Request([s EXCEPT !.raf.isSetTimeOut = TRUE, !.raf.onLoop = "timeout"],
            "timeout", 0)

\* Variant: the preferred branch does not reset _isSetTimeOut.
StartRAFKeepsFlag(s) ==
    Request([s EXCEPT !.raf.onLoop = "raf"], "raf", 0)

StartRAF(s) ==
    Request([s EXCEPT !.raf.isSetTimeOut = FALSE, !.raf.onLoop = "raf"],
            "raf", 0)

StartBody(s) ==
    LET s1 == [s EXCEPT !.raf.isRunning = TRUE]
    IN  IF ~s1.win.requestAnimationFrame \/ s1.raf.forceSetTimeOut
        THEN StartTimeout(s1)
        ELSE StartRAF(s1)

\* Phaser.RequestAnimationFrame.start, with what a caller can observe.
Start(s) ==
    LET r == StartBody(s)
    IN  [r EXCEPT
           !.robs.starts = @ + 1,
           !.robs.driverStopped = FALSE,
           !.robs.switched = (@ \/ (s.robs.lastStart.valid /\ s.raf.isSetTimeOut
                                         /\ ~r.raf.isSetTimeOut)),
           !.robs.lastStart =
               [ valid        |-> TRUE,
                 hadRAF       |-> s.win.requestAnimationFrame,
                 force        |-> s.raf.forceSetTimeOut,
                 isRunning    |-> r.raf.isRunning,
                 isSetTimeOut |-> r.raf.isSetTimeOut,
                 newRequests  |-> r.win.pending \ s.win.pending,
                 pendingAfter |-> Cardinality(r.win.pending),
                 afterStop    |-> s.robs.lastStop.valid ] ]

\* Variant: stop() tests forceSetTimeOut instead of _isSetTimeOut.
StopBodyByForce(s) ==
    IF s.raf.forceSetTimeOut
    THEN [Cancel(s, "timeout", s.raf.timeOutID) EXCEPT !.raf.isRunning = FALSE]
    ELSE IF s.win.cancelAnimationFrame
    THEN [Cancel(s, "raf", s.raf.timeOutID) EXCEPT !.raf.isRunning = FALSE]
    ELSE [s EXCEPT !.robs.err = TRUE]

StopBody(s) ==
    IF s.raf.isSetTimeOut
    THEN [Cancel(s, "timeout", s.raf.timeOutID) EXCEPT !.raf.isRunning = FALSE]
    ELSE IF s.win.cancelAnimationFrame
    THEN [Cancel(s, "raf", s.raf.timeOutID) EXCEPT !.raf.isRunning = FALSE]
    ELSE [s EXCEPT !.robs.err = TRUE]    \* TypeError: not a function

\* Phaser.RequestAnimationFrame.stop, with what a caller can observe.
Stop(s) ==
    LET r == StopBody(s)
    IN  [r EXCEPT
           !.robs.stops = @ + 1,
           !.robs.lastStop =
               [ valid     |-> TRUE,
                 threw     |-> (r.robs.err /\ ~s.robs.err),
                 prim      |-> IF s.raf.isSetTimeOut THEN "timeout" ELSE "raf",
                 token     |-> s.raf.timeOutID,
                 wasRunning |-> s.raf.isRunning,
                 inDriver  |-> (s.robs.active > 0),
                 force     |-> s.raf.forceSetTimeOut,
                 tokenPending |-> (\E q \in r.win.pending :
                                      /\ q.prim = (IF s.raf.isSetTimeOut THEN "timeout" ELSE "raf")
                                      /\ q.id = s.raf.timeOutID),
                 pendingAfter |-> Cardinality(r.win.pending),
                 started   |-> s.robs.lastStart.valid,
                 issued    |-> s.robs.lastIssued.id,
                 startedFallback |->
                     IF s.robs.lastStart.valid
                     THEN (~s.robs.lastStart.hadRAF \/ s.robs.lastStart.force)
                     ELSE FALSE,
                 isRunning |-> r.raf.isRunning,
                 pathSame  |-> (r.raf.isSetTimeOut = s.raf.isSetTimeOut),
                 cancelled |-> Cardinality(s.win.pending \ r.win.pending) ] ]

\* this.game.update(time): the driver, owned by the caller.  It may do
\* nothing to the scheduler, call stop(), call stop() then start(), or
\* change game.time.timeToCall.
Driver(s, time, kind, ttc) ==
    LET s1 == [s EXCEPT !.game.updates = @ + 1,
                        !.game.lastTime = time,
                        !.robs.active = @ + 1,
                        !.robs.peak = IF s.robs.active + 1 > @ THEN s.robs.active + 1 ELSE @,
                        !.robs.driverEntry = s.robs.requests,
                        !.robs.updatesAfterDriverStop =
                            IF s.robs.driverStopped THEN 1 ELSE @]
        s2 == CASE kind = "none"    -> s1
                [] kind = "stop"    -> [Stop(s1) EXCEPT !.robs.driverStopped = TRUE]
                [] kind = "restart" -> Start(Stop(s1))
                [] kind = "retime"  -> [s1 EXCEPT !.game.timeToCall = ttc]
    IN  [s2 EXCEPT !.robs.active = @ - 1,
                   !.robs.driverExit = s2.robs.requests]

\* Variant: the next frame is requested before the driver is called.
UpdateRAFRequestFirst(s, rafTime, kind, ttc) ==
    Driver(Request(s, "raf", 0), Floor(rafTime), kind, ttc)

\* Phaser.RequestAnimationFrame.updateRAF
UpdateRAF(s, rafTime, kind, ttc) ==
    LET s1 == Driver(s, Floor(rafTime), kind, ttc)
    IN  Request(s1, "raf", 0)

\* Variant: no further request is issued after the driver.
UpdateSetTimeoutOnce(s, now, kind, ttc) ==
    Driver(s, now, kind, ttc)

\* Variant: the delay is read before the driver is called.
UpdateSetTimeoutStaleDelay(s, now, kind, ttc) ==
    LET s1 == Driver(s, now, kind, ttc)
    IN  Request(s1, "timeout", s.game.timeToCall)

\* Phaser.RequestAnimationFrame.updateSetTimeout
UpdateSetTimeout(s, now, kind, ttc) ==
    LET s1 == Driver(s, now, kind, ttc)
    IN  Request(s1, "timeout", s1.game.timeToCall)

\* The host calls the _onLoop closure of the pending request p, which runs
\* the update method it was created for; with what the call did.
Frame(s, p, now, rafTime, kind, ttc) ==
    LET s0 == [s EXCEPT !.win.pending = @ \ {p}]
        r  == IF p.loop = "raf"
              THEN UpdateRAF(s0, rafTime, kind, ttc)
              ELSE UpdateSetTimeout(s0, now, kind, ttc)
    IN  [r EXCEPT
           !.robs.driverEntry = 0,
           !.robs.driverExit = 0,
           !.robs.lastFrame =
               [ valid        |-> TRUE,
                 loop         |-> p.loop,
                 kind         |-> kind,
                 updates      |-> r.game.updates - s.game.updates,
                 beforeDriver |-> r.robs.driverEntry - s.robs.requests,
                 afterDriver  |-> r.robs.requests - r.robs.driverExit,
                 issued       |-> r.robs.lastIssued.prim,
                 delay        |-> r.robs.lastIssued.delay,
                 chosen       |-> ttc,
                 timeToCall   |-> r.game.timeToCall ] ]

\* Variant: isRAF() answers from forceSetTimeOut.
IsRAFByForce(s) == (s.raf.forceSetTimeOut = FALSE)

\* isSetTimeOut() and isRAF()
IsSetTimeOut(s) == s.raf.isSetTimeOut
IsRAF(s) == (s.raf.isSetTimeOut = FALSE)

Sched == [raf |-> raf, win |-> win, game |-> game, robs |-> robs]

SetSched(s) ==
    /\ raf' = s.raf
    /\ win' = s.win
    /\ game' = s.game
    /\ robs' = s.robs

\* new Phaser.RequestAnimationFrame(game, forceSetTimeOut) on some host.
RafInit ==
    \E h \in HostRAF, f \in BOOLEAN, t \in {1} :
        LET s == Constructor(h, f, t)
        IN  /\ raf = s.raf
            /\ win = s.win
            /\ game = s.game
            /\ robs = s.robs

\* The owner calls start(); it must not do so while the scheduler runs.
CallStart ==
    /\ ~raf.isRunning
    /\ robs.starts < MaxStarts
    /\ SetSched(Start(Sched))
    /\ UNCHANGED devVars

\* The owner calls stop().
CallStop ==
    /\ robs.stops < MaxStops
    /\ SetSched(Stop(Sched))
    /\ UNCHANGED devVars

\* The owner assigns the public property forceSetTimeOut.
SetForce ==
    /\ raf' = [raf EXCEPT !.forceSetTimeOut = ~@]
    /\ UNCHANGED <<win, game, robs>>
    /\ UNCHANGED devVars

\* The host fires a pending request: _onLoop runs the update method of the
\* path the closure was created for.
FireFrame ==
    /\ game.updates < MaxFrames
    /\ \E p \in win.pending, kind \in DriverKinds, ttc \in 1..MaxTimeToCall,
          now \in {MaxClock}, rafTime \in {2 * MaxClock, 2 * MaxClock + 1} :
          /\ kind = "restart" => (robs.starts < MaxStarts /\ robs.stops < MaxStops)
          /\ kind = "stop" => robs.stops < MaxStops
          /\ kind # "retime" => ttc = 1
          /\ p.loop # "raf" => rafTime = 2 * MaxClock
          /\ SetSched(Frame(Sched, p, now, rafTime, kind, ttc))
    /\ UNCHANGED devVars

\* In a run without end the handles of the host come round again after
\* MaxHandles, the updates are counted modulo MaxFrames + 1 and the requests
\* up to MaxFrames.
Recycle(s) ==
    [s EXCEPT !.win.nextId = [p \in Prims |-> IF @[p] > MaxHandles THEN 1 ELSE @[p]],
              !.game.updates = @ % (MaxFrames + 1),
              !.robs.requests = IF @ > MaxFrames THEN MaxFrames ELSE @]

\* The owner calls start() once and never calls stop().
StartOnce ==
    /\ ~raf.isRunning
    /\ robs.starts = 0
    /\ SetSched(Recycle(Start(Sched)))
    /\ UNCHANGED devVars

\* The host fires a pending request; the driver does not touch the
\* scheduler (it may change game.time.timeToCall).
FireFrameOn ==
    /\ \E p \in win.pending, kind \in {"none", "retime"}, ttc \in 1..MaxTimeToCall,
          now \in {MaxClock}, rafTime \in {2 * MaxClock, 2 * MaxClock + 1} :
          /\ kind # "retime" => ttc = 1
          /\ p.loop # "raf" => rafTime = 2 * MaxClock
          /\ SetSched(Recycle(Frame(Sched, p, now, rafTime, kind, ttc)))
    /\ UNCHANGED devVars

RafLiveNext ==
    \/ StartOnce
    \/ SetForce
    \/ FireFrameOn

RafNext ==
    \/ CallStart
    \/ CallStop
    \/ SetForce
    \/ FireFrame

-----------------------------------------------------------------------------
(* Specifications *)

\* The Device with an idle scheduler.
Init ==
    /\ DeviceInit
    /\ \E t \in {1} :
          LET s == Constructor("native", FALSE, t)
          IN  /\ raf = s.raf
              /\ win = s.win
              /\ game = s.game
              /\ robs = s.robs

Next == DeviceNext

Spec == Init /\ [][Next]_vars

\* The Device on a host where the detection of some probe fails.
FaultInit ==
    /\ \E d \in Docs :
          /\ DocInit([d EXCEPT !.fails = {}])
          /\ d.fails \in FaultProfiles
          /\ "css3D" \in d.hostCaps
          /\ ~d.cocoonJS
          /\ LET w == WhenReady([dev |-> DeviceNew, doc |-> d, obs |-> ObsNew],
                                DOMCallback, "null", TRUE)
             IN  /\ dev = w.dev
                 /\ doc = w.doc
                 /\ obs = [w.obs EXCEPT !.whenCalls = 0, !.lastWhen = [valid |-> FALSE]]
    /\ LET s == Constructor("native", FALSE, 1)
       IN  /\ raf = s.raf
           /\ win = s.win
           /\ game = s.game
           /\ robs = s.robs

FaultSpec == FaultInit /\ [][Next]_vars

\* The Device on a host whose document can lose its body.
BodyNext ==
    \/ DeviceNext
    \/ BodyRemoved

BodySpec == Init /\ [][BodyNext]_vars

\* What the media elements report on the hosts of an application that
\* queries the Device.
QueryProfiles == HostProfiles \cup { {"opus", "vp9Video"} }

\* The Device used by an application that subscribes and asks canPlayAudio
\* and canPlayVideo at any time, on a host where the audio detection may
\* fail.
QueryInit ==
    /\ \E d \in [ readyState : {"loading"}, body : {FALSE}, cordova : {FALSE},
                   cocoonJS : {FALSE}, hostCaps : QueryProfiles,
                   fails : {{}, {"Audio"}}, reentrant : {{}}, throwers : {{}},
                   handlerCalls : {FALSE}, listeners : {{}},
                   timers : {[t \in {0, 20} |-> 0]} ] :
          LET w == WhenReady([dev |-> DeviceNew, doc |-> d, obs |-> ObsNew],
                             DOMCallback, "null", TRUE)
          IN  /\ dev = w.dev
              /\ doc = w.doc
              /\ obs = [w.obs EXCEPT !.whenCalls = 0, !.lastWhen = [valid |-> FALSE]]
    /\ LET s == Constructor("native", FALSE, 1)
       IN  /\ raf = s.raf
           /\ win = s.win
           /\ game = s.game
           /\ robs = s.robs

QueryNext ==
    \/ Subscribe
    \/ HostEvent
    \/ MonitorTimer
    \/ BodyParsed
    \/ CallCanPlayAudio
    \/ CallCanPlayVideo

QuerySpec == QueryInit /\ [][QueryNext]_vars

\* What the application's callbacks and onInitialized handler do: which
\* callbacks call whenReady, which throw, whether the handler calls whenReady.
CallbackProfiles ==
    { [reentrant |-> {1},    throwers |-> {},  handlerCalls |-> TRUE],
      [reentrant |-> {},     throwers |-> {2}, handlerCalls |-> FALSE],
      [reentrant |-> {2},    throwers |-> {2}, handlerCalls |-> FALSE],
      [reentrant |-> {3},    throwers |-> {1}, handlerCalls |-> TRUE] }

\* The Device used by an application whose callbacks call whenReady or throw.
CallbackInit ==
    /\ \E c \in CallbackProfiles :
          LET d == [ readyState |-> "loading", body |-> FALSE, cordova |-> FALSE,
                     cocoonJS |-> FALSE, hostCaps |-> {"ogg", "mp3", "oggVideo"},
                     fails |-> {}, reentrant |-> c.reentrant, throwers |-> c.throwers,
                     handlerCalls |-> c.handlerCalls, listeners |-> {},
                     timers |-> [t \in {0, 20} |-> 0] ]
              w == WhenReady([dev |-> DeviceNew, doc |-> d, obs |-> ObsNew],
                             DOMCallback, "null", TRUE)
          IN  /\ dev = w.dev
              /\ doc = w.doc
              /\ obs = [w.obs EXCEPT !.whenCalls = 0, !.lastWhen = [valid |-> FALSE]]
    /\ LET s == Constructor("native", FALSE, 1)
       IN  /\ raf = s.raf
           /\ win = s.win
           /\ game = s.game
           /\ robs = s.robs

\* The application calls whenReady, at most CallbackSubs times.
CallbackSubscribe ==
    /\ obs.whenCalls < CallbackSubs
    /\ \E nonPrimer \in BOOLEAN :
          SetWorld(WhenReady(World, obs.whenCalls + 1, "ctxA", nonPrimer))
    /\ UNCHANGED rafVars

CallbackNext ==
    \/ CallbackSubscribe
    \/ HostEvent
    \/ MonitorTimer
    \/ BodyParsed

CallbackSpec == CallbackInit /\ [][CallbackNext]_vars

\* The counters of readiness checks stop at MaxChecks: a host may poll for
\* ever.
Saturate(w) ==
    [w EXCEPT !.obs.checks = IF @ > MaxChecks THEN MaxChecks ELSE @,
              !.obs.bodyChecks = IF @ > MaxChecks THEN MaxChecks ELSE @]

\* The application calls whenReady, at most OnceSubs times; what the arming
\* call attached and where its pair went are noted.
OnceSubscribe ==
    /\ obs.whenCalls < OnceSubs
    /\ \E nonPrimer \in BOOLEAN :
          LET r == WhenReady(World, obs.whenCalls + 1, "ctxA", nonPrimer)
              l == r.obs.lastWhen
          IN  SetWorld([r EXCEPT
                  !.obs.strategy =
                      IF ~l.monitorSet THEN @
                      ELSE IF l.timersAdded[0] > 0 THEN "timer"
                      ELSE IF l.listenersAdded = {"deviceready"} THEN "deviceready"
                      ELSE "dom",
                  !.obs.armIndex = IF l.monitorSet THEN Len(r.obs.queued) ELSE @])
    /\ UNCHANGED rafVars

\* The host delivers one of its readiness events, each at most once; the
\* ready check runs if it listens.
EventOnce ==
    /\ \E e \in Events \ obs.fired, now \in Now :
          LET w == [World EXCEPT !.obs.fired = @ \cup {e}]
          IN  SetWorld(IF e \in doc.listeners THEN Saturate(ReadyCheck(w, now)) ELSE w)
    /\ UNCHANGED rafVars

\* A pending timer of the ready check fires.
TimerFires ==
    /\ \E t \in {0, 20}, now \in Now :
          /\ doc.timers[t] > 0
          /\ SetWorld(Saturate(ReadyCheck([World EXCEPT !.doc.timers[t] = @ - 1], now)))
    /\ UNCHANGED rafVars

OnceNext ==
    \/ OnceSubscribe
    \/ EventOnce
    \/ TimerFires
    \/ BodyParsed
    \/ DocProgress

\* The Device on a host that delivers each readiness event at most once and
\* may poll for ever.
OnceSpec == Init /\ [][OnceNext]_vars

\* Two such hosts, a browser and a Cordova shell.
LiveInit ==
    /\ \E c \in BOOLEAN :
          LET d == [ readyState |-> "loading", body |-> FALSE, cordova |-> c,
                     cocoonJS |-> FALSE, hostCaps |-> {"ogg", "mp3", "oggVideo"},
                     fails |-> {}, reentrant |-> {}, throwers |-> {},
                     handlerCalls |-> FALSE, listeners |-> {},
                     timers |-> [t \in {0, 20} |-> 0] ]
              w == WhenReady([dev |-> DeviceNew, doc |-> d, obs |-> ObsNew],
                             DOMCallback, "null", TRUE)
          IN  /\ dev = w.dev
              /\ doc = w.doc
              /\ obs = [w.obs EXCEPT !.whenCalls = 0, !.lastWhen = [valid |-> FALSE]]
    /\ LET s == Constructor("native", FALSE, 1)
       IN  /\ raf = s.raf
           /\ win = s.win
           /\ game = s.game
           /\ robs = s.robs

\* The timers of such a host fire and its body gets parsed.
LiveSpec == LiveInit /\ [][OnceNext]_vars /\ WF_vars(TimerFires) /\ WF_vars(BodyParsed)

\* The scheduler with an idle Device.
RafSpecInit ==
    /\ RafInit
    /\ LET w == WhenReady([dev |-> DeviceNew,
                           doc |-> [ readyState |-> "loading", body |-> FALSE,
                                     cordova |-> FALSE, cocoonJS |-> FALSE,
                                     hostCaps |-> {}, fails |-> {}, reentrant |-> {},
                                     throwers |-> {}, handlerCalls |-> FALSE,
                                     listeners |-> {},
                                     timers |-> [t \in {0, 20} |-> 0] ],
                           obs |-> ObsNew],
                          DOMCallback, "null", TRUE)
       IN  /\ dev = w.dev
           /\ doc = w.doc
           /\ obs = w.obs

RafSpec == RafSpecInit /\ [][RafNext]_vars

\* The scheduler started once and never stopped, on a host that fires every
\* request.
RafLiveSpec == RafSpecInit /\ [][RafLiveNext]_vars /\ WF_vars(FireFrameOn)

-----------------------------------------------------------------------------
(* Properties of Phaser.Device *)

Ready == dev.deviceReadyAt # 0

DrainCalls == SelectSeq(obs.calls, LAMBDA c : c.via = "drain")
ImmediateCalls == SelectSeq(obs.calls, LAMBDA c : c.via = "immediate")

CallsOf(callback) == SelectSeq(obs.calls, LAMBDA c : c.cb = callback)

\* C1 as stated: once the armed Device has seen at least one readiness-check
\* invocation, the probe pass has run exactly once.
C1_ExactlyOncePerSignal ==
    obs.checks >= 1 => obs.initRuns = 1

\* C1 (amended): over any sequence of readiness-check invocations the probe
\* pass runs at most once; it has run exactly once as soon as one invocation
\* has found document.body, and not at all before; each probe has then run
\* once, and the capability record holds its defaults until that pass and
\* the result of that single pass afterwards.
C1_AtMostOnceProbing ==
    /\ obs.initRuns <= 1
    /\ (obs.bodyChecks >= 1) = (obs.initRuns = 1)
    /\ obs.probeLog = IF obs.initRuns = 1 THEN ProbeOrder ELSE << >>
    /\ dev.caps = IF obs.initRuns = 1 THEN doc.hostCaps ELSE {}

C1_Witness ==
    /\ obs.checks >= 3
    /\ obs.bodyChecks >= 2
    /\ obs.initRuns = 1

C3_ImmediateInvoke ==
    (obs.lastWhen.valid /\ obs.lastWhen.readyBefore) =>
        /\ obs.lastWhen.invoked = 1
        /\ obs.lastWhen.lastCall.cb = obs.lastWhen.cb
        /\ obs.lastWhen.lastCall.ctx = obs.lastWhen.ctx
        /\ obs.lastWhen.lastCall.arg = "Device"
        /\ obs.lastWhen.lastCall.via = "immediate"
        /\ obs.lastWhen.pushed = 0
        /\ obs.lastWhen.queueAfter = obs.lastWhen.queueBefore
        /\ obs.lastWhen.attached = 0

C3_Witness ==
    /\ obs.lastWhen.valid
    /\ obs.lastWhen.readyBefore
    /\ Len(ImmediateCalls) >= 2

\* C4: on the ready transition the queued callbacks are invoked in the
\* order in which whenReady queued them.
C4_FIFONotification ==
    Ready =>
        /\ Len(DrainCalls) = Len(obs.queued)
        /\ \A i \in 1..Len(obs.queued) : DrainCalls[i].cb = obs.queued[i][1]

C4_Witness ==
    /\ Ready
    /\ Len(DrainCalls) >= 3

\* C6: as long as whenReady has never been called without nonPrimer, the
\* Device is idle: _monitor is unset, no listener and no timer is armed, no
\* probe has run, deviceReadyAt is 0 and initialized is false.
C6_IdleUntilSubscribed ==
    obs.primers = 0 =>
        /\ ~dev.monitor
        /\ doc.listeners = {}
        /\ \A t \in {0, 20} : doc.timers[t] = 0
        /\ obs.armings = 0
        /\ obs.checks = 0
        /\ obs.initRuns = 0
        /\ dev.deviceReadyAt = 0
        /\ ~dev.initialized
        /\ obs.calls = << >>

C6_Witness ==
    /\ obs.primers = 0
    /\ obs.whenCalls >= 2
    /\ Len(dev.queue) >= 3

\* C7: the arming branch runs at most once, for the first whenReady call
\* made without nonPrimer; every other whenReady call before readiness
\* appends one pair to the queue and attaches nothing.
C7_ArmAtMostOnce ==
    /\ obs.armings = (IF obs.primers >= 1 THEN 1 ELSE 0)
    /\ obs.lastWhen.valid =>
          /\ obs.lastWhen.monitorSet =
                (~obs.lastWhen.nonPrimer /\ obs.lastWhen.primersBefore = 0)
          /\ (obs.lastWhen.monitorSet => obs.lastWhen.attached \in {1, 2})
          /\ (~obs.lastWhen.readyBefore /\ ~obs.lastWhen.monitorSet) =>
                /\ obs.lastWhen.pushed = 1
                /\ obs.lastWhen.attached = 0
                /\ obs.lastWhen.invoked = 0

C7_Witness ==
    /\ obs.lastWhen.valid
    /\ ~obs.lastWhen.nonPrimer
    /\ ~obs.lastWhen.readyBefore
    /\ obs.lastWhen.primersBefore >= 1
    /\ obs.armings = 1

-----------------------------------------------------------------------------
(* Properties of Phaser.RequestAnimationFrame *)

PathPrim(fallback) == IF fallback THEN "timeout" ELSE "raf"

\* C5: after the driver has called stop() during its own invocation, no
\* scheduling request is pending, the driver is not invoked again and
\* isRunning is false.
C5_StopPreventsReschedule ==
    robs.driverStopped =>
        /\ win.pending = {}
        /\ robs.updatesAfterDriverStop = 0
        /\ ~raf.isRunning

\* C8: start() sets isRunning and selects the fallback path exactly when
\* window.requestAnimationFrame is missing or forceSetTimeOut is set at
\* that call; it issues one request on the selected primitive, and
\* isSetTimeOut() reports the selection of the most recent start().
C8_FallbackSelection ==
    robs.lastStart.valid =>
        LET fallback == ~robs.lastStart.hadRAF \/ robs.lastStart.force
        IN  /\ robs.lastStart.isRunning
            /\ robs.lastStart.isSetTimeOut = fallback
            /\ IsSetTimeOut(Sched) = fallback
            /\ IsRAF(Sched) = ~fallback
            /\ Cardinality(robs.lastStart.newRequests) = 1
            /\ \A q \in robs.lastStart.newRequests :
                  /\ q.prim = PathPrim(fallback)
                  /\ q.loop = PathPrim(fallback)

C8_Witness ==
    /\ robs.lastStart.valid
    /\ win.requestAnimationFrame
    /\ robs.switched
    /\ ~robs.lastStart.isSetTimeOut

\* C9: stop() uses the cancel primitive of the path chosen by the most
\* recent start() (whatever forceSetTimeOut is by then), passes the token
\* of the most recent scheduling call, removes that request when it was
\* issued on that primitive, and leaves isRunning false.
C9_StopMatchesPath ==
    (robs.lastStop.valid /\ robs.lastStop.started) =>
        /\ ~robs.lastStop.threw
        /\ robs.lastStop.prim = PathPrim(robs.lastStop.startedFallback)
        /\ robs.lastStop.token = robs.lastStop.issued
        /\ ~robs.lastStop.tokenPending
        /\ ~robs.lastStop.isRunning

C9_Witness ==
    /\ robs.lastStop.valid
    /\ robs.lastStop.started
    /\ robs.lastStop.wasRunning
    /\ robs.lastStop.cancelled = 1
    /\ robs.lastStop.startedFallback # robs.lastStop.force
    /\ robs.requests >= 2

\* C10: a start() that follows a stop() leaves the scheduler running with
\* exactly one scheduling request pending.
C10_RestartOnePending ==
    (robs.lastStart.valid /\ robs.lastStart.afterStop) =>
        /\ robs.lastStart.isRunning
        /\ robs.lastStart.pendingAfter = 1

-----------------------------------------------------------------------------
(* Further properties of Phaser.Device *)

Stage(d) ==
    IF d.deviceReadyAt # 0 THEN 2 ELSE IF d.monitor THEN 1 ELSE 0

\* C12: every step moves the Device forward or leaves it where it is:
\* deviceReadyAt, once set, keeps its value, initialized stays true, the
\* discarded coordinator stays discarded and the stage never decreases.
C12_ForwardOnly ==
    [][ /\ Stage(dev') >= Stage(dev)
        /\ (dev.deviceReadyAt # 0 => dev'.deviceReadyAt = dev.deviceReadyAt)
        /\ (dev.initialized => dev'.initialized)
        /\ (~dev.readyCheck => ~dev'.readyCheck) ]_vars

C12_Witness ==
    /\ Ready
    /\ obs.bodyChecks >= 2
    /\ obs.lastWhen.valid
    /\ obs.lastWhen.readyBefore

C14_EnqueueOnly ==
    ( /\ obs.lastWhen.valid
      /\ ~obs.lastWhen.readyBefore
      /\ (obs.lastWhen.nonPrimer \/ obs.lastWhen.armedBefore) ) =>
        /\ obs.lastWhen.queueAfter =
              Append(obs.lastWhen.queueBefore, <<obs.lastWhen.cb, obs.lastWhen.ctx>>)
        /\ obs.lastWhen.devRestSame
        /\ ~obs.lastWhen.monitorSet
        /\ obs.lastWhen.docRestSame
        /\ obs.lastWhen.attached = 0
        /\ \A t \in {0, 20} : obs.lastWhen.timersAdded[t] = 0
        /\ obs.lastWhen.listenersAdded = {}
        /\ obs.lastWhen.listenersRemoved = {}
        /\ obs.lastWhen.invoked = 0
        /\ obs.lastWhen.probesRun = 0

C14_Witness ==
    /\ obs.lastWhen.valid
    /\ ~obs.lastWhen.readyBefore
    /\ obs.lastWhen.armedBefore
    /\ ~obs.lastWhen.nonPrimer
    /\ Len(obs.lastWhen.queueBefore) >= 2

\* C15: the arming call attaches one strategy: the 0 ms timer alone when
\* document.readyState is complete or interactive (also on Cordova), else
\* the deviceready listener alone on Cordova without CocoonJS, else the
\* DOMContentLoaded and load listeners.
C15_ListenerStrategy ==
    (obs.lastWhen.valid /\ obs.lastWhen.monitorSet) =>
        LET timer0    == [t \in {0, 20} |-> IF t = 0 THEN 1 ELSE 0]
            noTimer   == [t \in {0, 20} |-> 0]
        IN  /\ obs.lastWhen.listenersRemoved = {}
            /\ obs.lastWhen.docRestSame
            /\ IF obs.lastWhen.readyStateBefore \in {"complete", "interactive"}
               THEN /\ obs.lastWhen.timersAdded = timer0
                    /\ obs.lastWhen.listenersAdded = {}
               ELSE IF doc.cordova /\ ~doc.cocoonJS
               THEN /\ obs.lastWhen.timersAdded = noTimer
                    /\ obs.lastWhen.listenersAdded = {"deviceready"}
               ELSE /\ obs.lastWhen.timersAdded = noTimer
                    /\ obs.lastWhen.listenersAdded = {"DOMContentLoaded", "load"}

C15_Witness ==
    /\ obs.lastWhen.valid
    /\ obs.lastWhen.monitorSet
    /\ doc.cordova
    /\ ~doc.cocoonJS
    /\ obs.lastWhen.readyStateBefore = "complete"
    /\ obs.lastWhen.listenersAdded = {}

\* C16: the arming call on a document that is already complete or
\* interactive returns with its callback not invoked, no probe run and no
\* readiness check made: the check is left to the 0 ms timer.
C16_DeferredCheck ==
    ( /\ obs.lastWhen.valid
      /\ obs.lastWhen.monitorSet
      /\ obs.lastWhen.readyStateBefore \in {"complete", "interactive"} ) =>
        /\ obs.lastWhen.invoked = 0
        /\ obs.lastWhen.probesRun = 0
        /\ obs.lastWhen.checksRun = 0
        /\ obs.lastWhen.devRestSame
        /\ obs.lastWhen.timersAdded[0] = 1
        /\ obs.lastWhen.pushed = 1

C16_Witness ==
    /\ obs.lastWhen.valid
    /\ obs.lastWhen.monitorSet
    /\ obs.lastWhen.readyStateBefore = "interactive"
    /\ Ready

\* C17: on a host where the detection of a probe fails, the first readiness
\* check that finds the body still runs every probe, sets initialized,
\* notifies the queued subscribers and surfaces no error, and the failed
\* capability keeps its default.
C17_ProbeIsolation ==
    obs.bodyChecks >= 1 =>
        /\ obs.probeLog = ProbeOrder
        /\ dev.initialized
        /\ dev.queue = << >>
        /\ Len(DrainCalls) = Len(obs.queued)
        /\ obs.errors = 0
        /\ ("Audio" \in doc.fails => dev.caps \cap AudioFlags = {})
        /\ ("Video" \in doc.fails => dev.caps \cap VideoFlags = {})
        /\ ("CSS3D" \in doc.fails => "css3D" \notin dev.caps)

-----------------------------------------------------------------------------
(* Further properties of Phaser.RequestAnimationFrame *)

\* C18: a stop() made while the scheduler is not running throws nothing and
\* returns with isRunning false, the selected path unchanged and no request
\* pending.
C18_StopWhenIdle ==
    (robs.lastStop.valid /\ ~robs.lastStop.wasRunning) =>
        /\ ~robs.lastStop.threw
        /\ ~robs.lastStop.isRunning
        /\ robs.lastStop.pathSame
        /\ robs.lastStop.pendingAfter = 0

\* C19: at most one scheduling request is pending at any time (start() is
\* never called while the scheduler is running).
C19_AtMostOnePending ==
    Cardinality(win.pending) <= 1

\* C20: no driver invocation begins while another is in progress; a fired
\* frame callback invokes the driver once, issues no request before the
\* driver call and exactly one after the driver has returned, on the
\* primitive of its update method.
C20_NoReentrantDriver ==
    /\ robs.peak <= 1
    /\ robs.active = 0
    /\ robs.lastFrame.valid =>
          /\ robs.lastFrame.updates = 1
          /\ robs.lastFrame.beforeDriver = 0
          /\ robs.lastFrame.afterDriver = 1
          /\ robs.lastFrame.issued = robs.lastFrame.loop

C20_Witness ==
    /\ robs.lastFrame.valid
    /\ robs.lastFrame.kind = "restart"
    /\ robs.lastFrame.loop = "raf"
    /\ game.updates >= 2
    /\ Cardinality(win.pending) >= 2

-----------------------------------------------------------------------------
(* Queries, the missing body, the listeners and the probe order *)

\* The capability flags that answer a media kind, for each query function.
KindFlags(fn, type) ==
    IF fn = "audio"
    THEN CASE type = "mp3"  -> {"mp3"}
           [] type = "ogg"  -> {"ogg", "opus"}
           [] type = "m4a"  -> {"m4a"}
           [] type = "opus" -> {"opus"}
           [] type = "wav"  -> {"wav"}
           [] type = "webm" -> {"webm"}
           [] OTHER         -> {}
    ELSE CASE type = "webm" -> {"webmVideo", "vp9Video"}
           [] type = "mp4"  -> {"mp4Video", "h264Video"}
           [] type = "ogg"  -> {"oggVideo"}
           [] type = "ogv"  -> {"oggVideo"}
           [] type = "mpeg" -> {"hlsVideo"}
           [] OTHER         -> {}

\* What the probe pass detects on this host.
Detected ==
    IF "Audio" \in doc.fails THEN doc.hostCaps \ AudioFlags ELSE doc.hostCaps

\* C21: canPlayAudio(type) and canPlayVideo(type) change nothing and return
\* true exactly for a recognised kind one of whose capability flags was
\* detected: false for every unrecognised kind and, before the probe pass,
\* for every kind.
C21_MediaQueries ==
    /\ [] ( obs.lastQuery.valid =>
              LET q == obs.lastQuery
              IN  /\ q.result = (q.probed /\ KindFlags(q.fn, q.type) \cap Detected # {})
                  /\ (KindFlags(q.fn, q.type) = {} => ~q.result)
                  /\ (~q.probed => ~q.result) )
    /\ [][ obs'.lastQuery # obs.lastQuery =>
              /\ dev' = dev
              /\ doc' = doc
              /\ obs' = [obs EXCEPT !.lastQuery = obs'.lastQuery] ]_vars

C21_Witness ==
    /\ obs.lastQuery.valid
    /\ obs.lastQuery.probed
    /\ obs.lastQuery.fn = "audio"
    /\ obs.lastQuery.type = "ogg"
    /\ obs.lastQuery.result
    /\ "ogg" \notin dev.caps

\* C22: as long as document.body has not become available the Device is not
\* READY, whatever readiness signals and poll retries have occurred:
\* deviceReadyAt is 0, initialized is false, no probe has run and every
\* queued subscriber is still in the queue, not notified.
C22_NoBodyNoReady ==
    ~doc.body =>
        /\ dev.deviceReadyAt = 0
        /\ ~dev.initialized
        /\ obs.initRuns = 0
        /\ dev.queue = obs.queued
        /\ obs.calls = << >>
        /\ obs.dispatched = 0

C22_Witness ==
    /\ ~doc.body
    /\ dev.monitor
    /\ obs.checks >= 3
    /\ doc.timers[20] >= 2
    /\ Len(dev.queue) >= 3

\* C23: the capability record is written only by the single probe pass: a
\* step that changes a capability value is the one readiness check that runs
\* the probes for the first and only time; whenReady, canPlayAudio,
\* canPlayVideo and every other readiness check leave the record unchanged.
C23_CapsWrittenOnce ==
    [][ /\ (dev'.caps # dev.caps =>
                (obs.initRuns = 0 /\ obs'.initRuns = 1 /\ obs'.checks = obs.checks + 1))
        /\ (obs'.initRuns # obs.initRuns =>
                (obs.initRuns = 0 /\ obs'.checks = obs.checks + 1))
        /\ (obs'.whenCalls # obs.whenCalls => dev'.caps = dev.caps)
        /\ (obs'.lastQuery # obs.lastQuery => dev'.caps = dev.caps) ]_vars

C23_Witness ==
    /\ Ready
    /\ dev.caps # {}
    /\ obs.bodyChecks >= 2
    /\ obs.lastWhen.valid
    /\ obs.lastWhen.readyBefore
    /\ obs.lastQuery.valid
    /\ obs.lastQuery.probed

\* C24: a readiness check that finds no document.body while the Device is
\* not READY leaves deviceReadyAt, initialized, the capabilities, the queue
\* and the listeners as they were, notifies nobody and schedules exactly one
\* 20 ms retry (which replaces the timer that delivered the check, if one
\* did).
C24_NoBodyRetry ==
    [][ (obs'.checks = obs.checks + 1 /\ ~doc.body /\ dev.deviceReadyAt = 0) =>
            /\ dev' = dev
            /\ doc'.listeners = doc.listeners
            /\ doc'.body = doc.body
            /\ obs'.calls = obs.calls
            /\ obs'.initRuns = obs.initRuns
            /\ obs'.errors = obs.errors
            /\ \/ doc'.timers = [doc.timers EXCEPT ![20] = @ + 1]
               \/ doc'.timers = doc.timers /\ doc.timers[20] > 0
               \/ doc'.timers = [doc.timers EXCEPT ![0] = @ - 1, ![20] = @ + 1] ]_vars

C24_Witness ==
    /\ ~Ready
    /\ ~doc.body
    /\ obs.checks >= 2
    /\ obs.bodyChecks = 0
    /\ doc.timers[20] = 1
    /\ doc.timers[0] = 0

\* C25: once the Device is READY a further readiness check changes nothing
\* and raises no error, with or without document.body: the Device, the
\* listeners and the notifications are as before, no timer is scheduled and
\* no exception leaves the check.
C25_LeftoverCheckIsNoOp ==
    [][ (obs'.checks = obs.checks + 1 /\ dev.deviceReadyAt # 0) =>
            /\ dev' = dev
            /\ doc'.listeners = doc.listeners
            /\ doc'.timers[0] + doc'.timers[20] <= doc.timers[0] + doc.timers[20]
            /\ obs'.calls = obs.calls
            /\ obs'.initRuns = obs.initRuns
            /\ obs'.errors = obs.errors ]_vars

\* C26: the ready transition detaches the deviceready, DOMContentLoaded and
\* load listeners before the probes run, so that in every READY state none of
\* them is attached and a host signal no longer reaches the readiness check.
C26_ListenersDetached ==
    /\ Ready => doc.listeners = {}
    /\ obs.atProbes = {}

C26_Witness ==
    /\ Ready
    /\ obs.initRuns = 1
    /\ obs.lastWhen.valid
    /\ obs.lastWhen.monitorSet
    /\ obs.lastWhen.listenersAdded = {"DOMContentLoaded", "load"}

\* The position of a probe in the pass that has run.
ProbePos(probe) ==
    CHOOSE i \in 1..Len(obs.probeLog) : obs.probeLog[i] = probe

\* C29: the probes run in the order OS, audio, video, browser, CSS3D,
\* device, features, fullscreen, input, and every probe that reads a
\* capability written by another probe runs after it: the browser probe after
\* the OS probe, the features and input probes after the browser probe.
C29_ProbeOrder ==
    obs.initRuns >= 1 =>
        /\ obs.probeLog = << "OS", "Audio", "Video", "Browser", "CSS3D", "Device",
                             "Features", "FullScreenSupport", "Input" >>
        /\ obs.unmet = {}
        /\ ProbePos("OS") < ProbePos("Browser")
        /\ ProbePos("Browser") < ProbePos("Features")
        /\ ProbePos("Browser") < ProbePos("Input")

C29_Witness ==
    /\ obs.initRuns = 1
    /\ Len(obs.probeLog) = 9
    /\ dev.initialized
    /\ "css3D" \in dev.caps

-----------------------------------------------------------------------------
(* The fallback delay, the path queries and stop() between frames *)

\* C27: on the fallback path the request made by start() has delay 0 and the
\* request made by a frame has the value game.time.timeToCall holds when the
\* driver has returned, so the value a driver sets during a frame is the
\* delay of the very next request.
C27_FallbackDelay ==
    /\ (robs.lastStart.valid /\ robs.lastStart.isSetTimeOut) =>
          \A q \in robs.lastStart.newRequests : q.prim = "timeout" /\ q.delay = 0
    /\ (robs.lastFrame.valid /\ robs.lastFrame.loop = "timeout") =>
          /\ robs.lastFrame.issued = "timeout"
          /\ robs.lastFrame.delay = robs.lastFrame.timeToCall
          /\ (robs.lastFrame.kind = "retime" =>
                 robs.lastFrame.delay = robs.lastFrame.chosen)

C27_Witness ==
    /\ robs.lastFrame.valid
    /\ robs.lastFrame.loop = "timeout"
    /\ robs.lastFrame.kind = "retime"
    /\ robs.lastFrame.delay = MaxTimeToCall
    /\ game.updates >= 2

\* C28: isRAF() is the negation of isSetTimeOut() in every state; once
\* start() has been called both report the path selected by the most recent
\* start(), and a stop() leaves what they report unchanged.
C28_PathQueries ==
    /\ IsRAF(Sched) = ~IsSetTimeOut(Sched)
    /\ robs.lastStart.valid =>
          IsSetTimeOut(Sched) = (~robs.lastStart.hadRAF \/ robs.lastStart.force)
    /\ (robs.lastStop.valid /\ robs.lastStop.started) => robs.lastStop.pathSame

C28_Witness ==
    /\ robs.lastStart.valid
    /\ robs.lastStop.valid
    /\ robs.lastStop.started
    /\ ~raf.isRunning
    /\ IsSetTimeOut(Sched)
    /\ ~IsRAF(Sched)
    /\ win.requestAnimationFrame
    /\ ~raf.forceSetTimeOut

\* C30: a stop() made outside the driver while a request is pending cancels
\* it and leaves no request pending, so the driver is not invoked again until
\* start() is called; start() followed at once by stop() leaves no request
\* pending and the driver never invoked.
C30_StopBetweenFrames ==
    /\ ( /\ robs.lastStop.valid
         /\ ~robs.lastStop.inDriver
         /\ robs.lastStop.cancelled + robs.lastStop.pendingAfter >= 1 ) =>
            /\ robs.lastStop.cancelled = 1
            /\ robs.lastStop.pendingAfter = 0
            /\ ~robs.lastStop.isRunning
    /\ ( /\ robs.starts = 1
         /\ robs.stops = 1
         /\ robs.lastStop.started
         /\ game.updates = 0 ) => win.pending = {}

-----------------------------------------------------------------------------
(* Callbacks that call whenReady, callbacks that throw *)

\* C31: a whenReady call made by an onInitialized handler or by a ready
\* callback invokes its callback at once: the call is recorded right after
\* the dispatch or right after the calling callback, with the queue as the
\* caller found it (the waiting callbacks still waiting), and nothing is
\* appended to the queue.
C31_ReentrantImmediate ==
    /\ \A i \in 1..Len(obs.queued) : obs.queued[i][1] < HandlerCallback
    /\ \A i \in 1..Len(dev.queue) : dev.queue[i][1] < HandlerCallback
    /\ \A i \in 1..Len(obs.calls) :
          LET c == obs.calls[i]
          IN  /\ (c.cb >= HandlerCallback => c.via = "immediate")
              /\ (c.cb \in doc.reentrant =>
                     /\ i < Len(obs.calls)
                     /\ obs.calls[i + 1].cb = Nested(c.cb)
                     /\ obs.calls[i + 1].ctx = c.ctx
                     /\ obs.calls[i + 1].queueLen = c.queueLen)
    /\ (doc.handlerCalls /\ obs.atDispatch.valid) =>
          /\ Len(obs.calls) >= 1
          /\ obs.calls[1].cb = HandlerCallback
          /\ obs.calls[1].queueLen = obs.atDispatch.queueLen
          /\ obs.atDispatch.queueLen = Len(obs.queued)

C31_Witness ==
    /\ doc.handlerCalls
    /\ obs.atDispatch.valid
    /\ obs.atDispatch.queueLen >= 2
    /\ \E i \in 1..Len(obs.calls) :
          /\ obs.calls[i].cb \in doc.reentrant
          /\ obs.calls[i].via = "drain"
          /\ obs.calls[i].queueLen >= 1
    /\ dev.queue = << >>

\* A callback of the drain has thrown.
DrainThrew == \E i \in 1..Len(DrainCalls) : DrainCalls[i].cb \in doc.throwers

\* C33: once a queued callback has thrown during the drain, the callbacks
\* queued after it stay in the queue and are never invoked, whatever
\* readiness checks follow (deviceReadyAt is set, the probes are not run
\* again), and a later whenReady call invokes its callback at once.
C33_ThrowStopsDrain ==
    DrainThrew =>
        LET k == Len(DrainCalls)
        IN  /\ DrainCalls[k].cb \in doc.throwers
            /\ \A i \in 1..k : DrainCalls[i].cb = obs.queued[i][1]
            /\ dev.queue = SubSeq(obs.queued, k + 1, Len(obs.queued))
            /\ \A j \in (k + 1)..Len(obs.queued) : CallsOf(obs.queued[j][1]) = << >>
            /\ dev.deviceReadyAt # 0
            /\ obs.initRuns = 1
            /\ obs.dispatched = 1
            /\ (obs.lastWhen.valid /\ obs.lastWhen.readyBefore) =>
                  /\ obs.lastWhen.pushed = 0
                  /\ Len(CallsOf(obs.lastWhen.cb)) = 1
                  /\ CallsOf(obs.lastWhen.cb)[1].via = "immediate"

C33_Witness ==
    /\ DrainThrew
    /\ Len(dev.queue) >= 1
    /\ obs.bodyChecks >= 2
    /\ obs.lastWhen.valid
    /\ obs.lastWhen.readyBefore

\* C34: once a probe has thrown during the probe pass the Device stays with
\* deviceReadyAt set, the listeners detached and initialized false: the
\* queued subscribers are never notified, the signal is never dispatched, no
\* later readiness check runs the probes again, and a later whenReady call
\* invokes its callback at once, with initialized false.
C34_ProbeThrowHalfReady ==
    obs.errors >= 1 =>
        /\ dev.deviceReadyAt # 0
        /\ doc.listeners = {}
        /\ ~dev.initialized
        /\ dev.queue = obs.queued
        /\ DrainCalls = << >>
        /\ obs.dispatched = 0
        /\ obs.initRuns = 1
        /\ Len(obs.probeLog) < Len(ProbeOrder)
        /\ obs.errors = 1
        /\ \A i \in 1..Len(obs.calls) :
              /\ obs.calls[i].via = "immediate"
              /\ ~obs.calls[i].initialized
        /\ (obs.lastWhen.valid /\ obs.lastWhen.readyBefore) =>
              /\ obs.lastWhen.invoked = 1
              /\ obs.lastWhen.pushed = 0
              /\ obs.lastWhen.lastCall.cb = obs.lastWhen.cb

C34_Witness ==
    /\ obs.errors = 1
    /\ obs.bodyChecks >= 2
    /\ Len(dev.queue) >= 2
    /\ obs.lastWhen.valid
    /\ obs.lastWhen.readyBefore
    /\ Len(obs.calls) >= 1

-----------------------------------------------------------------------------
(* Deferred subscribers, eventual readiness, the number of poll timers *)

\* C32: before readiness every queued pair is still in the queue in the
\* order of the calls, so the callbacks queued with nonPrimer before the
\* arming call are ahead of the arming call's callback; on the ready
\* transition they are notified before it; as long as no call without
\* nonPrimer has been made nobody is notified.
C32_DeferredStayAhead ==
    /\ ~Ready => (dev.queue = obs.queued /\ obs.calls = << >>)
    /\ obs.primers = 0 => (~Ready /\ obs.armIndex = 0 /\ obs.checks = 0)
    /\ (Ready /\ obs.armIndex > 0) =>
          /\ Len(DrainCalls) >= obs.armIndex
          /\ \A i \in 1..obs.armIndex : DrainCalls[i].cb = obs.queued[i][1]
          /\ \A i \in 1..(obs.armIndex - 1) :
                DrainCalls[i].queueLen > DrainCalls[obs.armIndex].queueLen

C32_Witness ==
    /\ Ready
    /\ obs.armIndex >= 3
    /\ Len(DrainCalls) >= 3

\* The pending timers of the ready check.
PendingTimers(d) == d.timers[0] + d.timers[20]

C36_PollTimersBounded ==
    /\ [] ( PendingTimers(doc) <=
               (CASE obs.strategy = "none" -> 0
                  [] obs.strategy = "dom"  -> 2
                  [] OTHER                 -> 1) )
    /\ [][ /\ (TimerFires /\ ~doc.body) =>
                 (PendingTimers(doc') = PendingTimers(doc) /\ doc'.timers[0] <= doc.timers[0])
           /\ (TimerFires /\ doc.body) => PendingTimers(doc') = PendingTimers(doc) - 1
           /\ (EventOnce /\ ~doc.body) =>
                 ( /\ PendingTimers(doc') - PendingTimers(doc) \in {0, 1}
                   /\ doc'.timers[0] = doc.timers[0] )
           /\ (EventOnce /\ doc.body) => doc'.timers = doc.timers ]_vars

C36_Witness ==
    /\ obs.strategy = "dom"
    /\ PendingTimers(doc) = 2
    /\ obs.checks >= MaxChecks
    /\ ~doc.body

-----------------------------------------------------------------------------
(* The loop of Phaser.RequestAnimationFrame *)

\* C37: while the scheduler is started, stop() is never called and the host
\* fires every request, exactly one request is pending after start() and
\* after each driver invocation, and the driver is invoked again and again.
C37_LoopNeverStalls ==
    /\ [] (raf.isRunning => Cardinality(win.pending) = 1)
    /\ [] (robs.lastFrame.valid => (raf.isRunning /\ robs.lastFrame.afterDriver = 1))
    /\ \A k \in 0..(MaxFrames + 1) :
          (raf.isRunning /\ game.updates = k) ~> (game.updates # k)

C37_Witness ==
    /\ raf.isRunning
    /\ robs.lastFrame.valid
    /\ robs.lastFrame.loop = "timeout"
    /\ robs.requests >= MaxFrames
    /\ game.updates = 0
    /\ Cardinality(win.pending) = 1

====
